---------------------------- MODULE Spec2Model ----------------------------
(***************************************************************************)
(* Model of the M3U8 proxy of src/main.py: the token codec                 *)
(* (decode_proxy_data and the encoder inlined in rewrite_m3u8_urls), the   *)
(* playlist rewriter, content classification, and the request handler      *)
(* m3u8_proxy with its cache.                                              *)
(*                                                                         *)
(* Text is modelled as it is in the program: a str is a sequence of code   *)
(* points, a bytes object a sequence of byte values 0..255.  A literal is  *)
(* written as a tuple of code points with the text beside it.              *)
(***************************************************************************)
EXTENDS Integers, Sequences, FiniteSets, TLC

\* Python's None, for an Optional[str] field (no str holds the code point -1).
None == <<-1>>

(***************************************************************************)
(* str primitives used by the source                                       *)
(***************************************************************************)

\* s[i:] with a 1-based first position.
DropFirst(s, n) == SubSeq(s, n + 1, Len(s))

\* s[:-n]
DropLast(s, n) == SubSeq(s, 1, Len(s) - n)

\* str.startswith(p)
StartsWith(s, p) == Len(s) >= Len(p) /\ SubSeq(s, 1, Len(p)) = p

\* str.endswith(p)
EndsWith(s, p) == Len(s) >= Len(p) /\ SubSeq(s, Len(s) - Len(p) + 1, Len(s)) = p

\* p in s
Contains(s, p) ==
    \E i \in 1..(Len(s) - Len(p) + 1) : SubSeq(s, i, i + Len(p) - 1) = p

\* str.lower(), on the ASCII letters.
LowerChar(c) == IF c >= 65 /\ c <= 90 THEN c + 32 ELSE c

Lower(s) == [i \in 1..Len(s) |-> LowerChar(s[i])]

\* The characters str.strip() removes (str.isspace), within Latin-1.
IsSpace(c) == c \in ((9..13) \cup (28..32) \cup {133, 160})

\* str.strip()
Strip(s) ==
    LET keep == {i \in 1..Len(s) : ~IsSpace(s[i])}
    IN  IF keep = {} THEN <<>>
        ELSE SubSeq(s, CHOOSE i \in keep : \A j \in keep : i <= j,
                       CHOOSE i \in keep : \A j \in keep : i >= j)

\* str.rstrip("=")
RStripEq(s) ==
    LET keep == {i \in 1..Len(s) : s[i] # 61}
    IN  IF keep = {} THEN <<>>
        ELSE SubSeq(s, 1, CHOOSE i \in keep : \A j \in keep : i >= j)

\* The positions 1..Len(s), in order.
Positions(s) == [i \in 1..Len(s) |-> i]

\* str.split("\n"): the pieces between the line feeds, empty pieces kept.
SplitLines(s) ==
    LET nl == SelectSeq(Positions(s), LAMBDA i : s[i] = 10)
    IN  [k \in 1..(Len(nl) + 1) |->
            SubSeq(s, IF k = 1 THEN 1 ELSE nl[k - 1] + 1,
                      IF k > Len(nl) THEN Len(s) ELSE nl[k] - 1)]

\* "\n".join(lines)
RECURSIVE JoinLines(_)
JoinLines(lines) ==
    IF Len(lines) = 0 THEN <<>>
    ELSE IF Len(lines) = 1 THEN lines[1]
    ELSE lines[1] \o <<10>> \o JoinLines(Tail(lines))

\* The concatenation of a sequence of strings (by halves).
RECURSIVE Flatten(_)
Flatten(ss) ==
    IF Len(ss) = 0 THEN <<>>
    ELSE IF Len(ss) = 1 THEN ss[1]
    ELSE Flatten(SubSeq(ss, 1, Len(ss) \div 2))
         \o Flatten(SubSeq(ss, (Len(ss) \div 2) + 1, Len(ss)))

(***************************************************************************)
(* base64 (the standard library's urlsafe_b64encode / urlsafe_b64decode)   *)
(***************************************************************************)

\* The URL-safe alphabet: A-Z a-z 0-9 - _
B64Char(v) ==
    IF v < 26 THEN 65 + v
    ELSE IF v < 52 THEN 97 + (v - 26)
    ELSE IF v < 62 THEN 48 + (v - 52)
    ELSE IF v = 62 THEN 45
    ELSE 95

\* The value of a character for the decoder, 64 for a character outside the
\* alphabet. urlsafe_b64decode translates - and _ to + and / and then
\* decodes with the standard alphabet, so it takes all four.
B64Value(c) ==
    IF c >= 65 /\ c <= 90 THEN c - 65
    ELSE IF c >= 97 /\ c <= 122 THEN c - 97 + 26
    ELSE IF c >= 48 /\ c <= 57 THEN c - 48 + 52
    ELSE IF c = 45 \/ c = 43 THEN 62
    ELSE IF c = 95 \/ c = 47 THEN 63
    ELSE 64

\* The byte at position i of b, 0 past its end (the encoder's zero fill).
ByteAt(b, i) == IF i <= Len(b) THEN b[i] ELSE 0

\* The four characters of the 3-byte group that starts at byte i.
B64Group(b, i) ==
    <<B64Char(ByteAt(b, i) \div 4),
      B64Char(((ByteAt(b, i) % 4) * 16) + (ByteAt(b, i + 1) \div 16)),
      IF i + 1 > Len(b) THEN 61
      ELSE B64Char(((ByteAt(b, i + 1) % 16) * 4) + (ByteAt(b, i + 2) \div 64)),
      IF i + 2 > Len(b) THEN 61 ELSE B64Char(ByteAt(b, i + 2) % 64)>>

\* base64.urlsafe_b64encode(bytes), padded with "=".
B64Encode(b) ==
    [k \in 1..(((Len(b) + 2) \div 3) * 4) |->
        B64Group(b, (((k - 1) \div 4) * 3) + 1)[((k - 1) % 4) + 1]]

\* binascii.a2b_base64 without validation. Characters outside the alphabet
\* are skipped. A "=" ends the input when it completes a quad: the first one
\* after three data characters of a quad, the second one in a row after two.
\* Without such an end, data characters left in an open quad are an error
\* (binascii.Error).
A2B(s) ==
    LET f        == SelectSeq(s, LAMBDA c : c = 61 \/ B64Value(c) < 64)
        quad(i)  == Cardinality({j \in 1..(i - 1) : f[j] # 61}) % 4
        stops    == {i \in 1..Len(f) :
                        /\ f[i] = 61
                        /\ \/ quad(i) = 3
                           \/ quad(i) = 2 /\ i > 1 /\ f[i - 1] = 61}
        stop     == IF stops = {} THEN Len(f) + 1
                    ELSE CHOOSE i \in stops : \A j \in stops : i <= j
        data     == SelectSeq(SubSeq(f, 1, stop - 1), LAMBDA c : c # 61)
        v(i)     == B64Value(data[i])
        nbytes   == ((Len(data) \div 4) * 3)
                    + (IF Len(data) % 4 = 2 THEN 1 ELSE IF Len(data) % 4 = 3 THEN 2 ELSE 0)
        byte(k)  == LET g == ((k - 1) \div 3) * 4
                    IN  IF (k - 1) % 3 = 0 THEN (v(g + 1) * 4) + (v(g + 2) \div 16)
                        ELSE IF (k - 1) % 3 = 1 THEN ((v(g + 2) % 16) * 16) + (v(g + 3) \div 4)
                        ELSE ((v(g + 3) % 4) * 64) + v(g + 4)
    IN  IF stops = {} /\ Len(data) % 4 # 0
        THEN [err |-> "binascii.Error", bytes |-> <<>>]
        ELSE [err |-> "", bytes |-> [k \in 1..nbytes |-> byte(k)]]

\* base64.urlsafe_b64decode(str): a str with a non-ASCII character is refused
\* with a plain ValueError before any decoding.
B64Decode(s) ==
    IF \E i \in 1..Len(s) : s[i] > 127
    THEN [err |-> "ValueError", bytes |-> <<>>]
    ELSE A2B(s)

(***************************************************************************)
(* UTF-8 (bytes.decode("utf-8"), strict, and str.encode("utf-8"))          *)
(***************************************************************************)

IsCont(b, i) == i <= Len(b) /\ b[i] >= 128 /\ b[i] <= 191

\* The number of continuation bytes the lead byte asks for, -1 for a byte
\* that can start no character.
Utf8Need(c) ==
    IF c < 128 THEN 0
    ELSE IF c >= 194 /\ c <= 223 THEN 1
    ELSE IF c >= 224 /\ c <= 239 THEN 2
    ELSE IF c >= 240 /\ c <= 244 THEN 3
    ELSE -1

\* Whether a well-formed character starts at b[i] (no overlong form, no
\* surrogate, nothing above U+10FFFF).
Utf8GoodAt(b, i) ==
    /\ Utf8Need(b[i]) >= 0
    /\ \A k \in 1..Utf8Need(b[i]) : IsCont(b, i + k)
    /\ (b[i] = 224 => b[i + 1] >= 160)
    /\ (b[i] = 237 => b[i + 1] <= 159)
    /\ (b[i] = 240 => b[i + 1] >= 144)
    /\ (b[i] = 244 => b[i + 1] <= 143)

Utf8CodePoint(b, i) ==
    IF b[i] < 128 THEN b[i]
    ELSE IF b[i] < 224 THEN ((b[i] - 192) * 64) + (b[i + 1] - 128)
    ELSE IF b[i] < 240 THEN
        ((b[i] - 224) * 4096) + ((b[i + 1] - 128) * 64) + (b[i + 2] - 128)
    ELSE ((b[i] - 240) * 262144) + ((b[i + 1] - 128) * 4096)
         + ((b[i + 2] - 128) * 64) + (b[i + 3] - 128)

\* bytes.decode("utf-8"), strict: every byte that is no continuation byte
\* starts a well-formed character, and every continuation byte belongs to
\* the character started before it.
Utf8Decode(b) ==
    LET starts == SelectSeq(Positions(b), LAMBDA i : ~IsCont(b, i))
        owned(i) == \E j \in 1..3 : /\ i - j >= 1
                                     /\ ~IsCont(b, i - j)
                                     /\ Utf8Need(b[i - j]) >= j
                                     /\ \A k \in 1..(j - 1) : IsCont(b, i - k)
    IN  IF /\ \A i \in 1..Len(b) : IsCont(b, i) => owned(i)
           /\ \A k \in 1..Len(starts) : Utf8GoodAt(b, starts[k])
        THEN [err |-> "", text |-> [k \in 1..Len(starts) |-> Utf8CodePoint(b, starts[k])]]
        ELSE [err |-> "UnicodeDecodeError", text |-> <<>>]

Utf8EncodeChar(c) ==
    IF c < 128 THEN <<c>>
    ELSE IF c < 2048 THEN <<192 + (c \div 64), 128 + (c % 64)>>
    ELSE IF c < 65536 THEN <<224 + (c \div 4096), 128 + ((c \div 64) % 64), 128 + (c % 64)>>
    ELSE <<240 + (c \div 262144), 128 + ((c \div 4096) % 64),
           128 + ((c \div 64) % 64), 128 + (c % 64)>>

\* str.encode("utf-8")
Utf8Encode(s) == Flatten([i \in 1..Len(s) |-> Utf8EncodeChar(s[i])])

(***************************************************************************)
(* JSON (the standard library's json.dumps / json.loads)                   *)
(***************************************************************************)

HexDigit(v) == IF v < 10 THEN 48 + v ELSE 97 + (v - 10)

\* "\\u{0:04x}"
UEscape(n) ==
    <<92, 117, HexDigit((n \div 4096)), HexDigit(((n \div 256) % 16)),
      HexDigit(((n \div 16) % 16)), HexDigit((n % 16))>>

\* json.encoder.py_encode_basestring_ascii, one character (ensure_ascii).
JsonEscapeChar(c) ==
    IF c = 34 THEN <<92, 34>>
    ELSE IF c = 92 THEN <<92, 92>>
    ELSE IF c = 10 THEN <<92, 110>>
    ELSE IF c = 13 THEN <<92, 114>>
    ELSE IF c = 9 THEN <<92, 116>>
    ELSE IF c = 12 THEN <<92, 102>>
    ELSE IF c = 8 THEN <<92, 98>>
    ELSE IF c >= 32 /\ c <= 126 THEN <<c>>
    ELSE IF c < 65536 THEN UEscape(c)
    ELSE UEscape(55296 + (((c - 65536) \div 1024) % 1024)) \o UEscape(56320 + (c % 1024))

\* json.dumps of a str: the quoted, escaped string.
JsonString(s) == <<34>> \o Flatten([i \in 1..Len(s) |-> JsonEscapeChar(s[i])]) \o <<34>>

HexVal(c) ==
    IF c >= 48 /\ c <= 57 THEN c - 48
    ELSE IF c >= 97 /\ c <= 102 THEN c - 97 + 10
    ELSE IF c >= 65 /\ c <= 70 THEN c - 65 + 10
    ELSE -1

\* The value of the four hex digits at s[i..i+3], -1 when they are not four
\* hex digits (json.decoder._decode_uXXXX).
Hex4(s, i) ==
    IF i + 3 > Len(s) \/ \E k \in 0..3 : HexVal(s[i + k]) < 0 THEN -1
    ELSE HexVal(s[i]) * 4096 + HexVal(s[i + 1]) * 256 + HexVal(s[i + 2]) * 16 + HexVal(s[i + 3])

JsonFail == [ok |-> FALSE, val |-> [t |-> "null", v |-> <<>>], end |-> 0]

JsonOk(t, v, end) == [ok |-> TRUE, val |-> [t |-> t, v |-> v], end |-> end]

IsJsonWs(c) == c \in {32, 9, 10, 13}

\* WHITESPACE.match(s, i).end()
SkipWs(s, i) ==
    LET stop == {j \in i..Len(s) : ~IsJsonWs(s[j])}
    IN  IF stop = {} THEN IF i > Len(s) THEN i ELSE Len(s) + 1
        ELSE CHOOSE j \in stop : \A k \in stop : j <= k

IsDigit(c) == c >= 48 /\ c <= 57

SkipDigits(s, i) ==
    LET stop == {j \in i..Len(s) : ~IsDigit(s[j])}
    IN  IF stop = {} THEN IF i > Len(s) THEN i ELSE Len(s) + 1
        ELSE CHOOSE j \in stop : \A k \in stop : j <= k

\* The end of the exponent part of NUMBER_RE from position f on.
NumberExp(s, f) ==
    IF f # 0 /\ f <= Len(s) /\ s[f] \in {101, 69} THEN
        IF f + 1 <= Len(s) /\ IsDigit(s[f + 1]) THEN SkipDigits(s, f + 1)
        ELSE IF f + 2 <= Len(s) /\ s[f + 1] \in {43, 45} /\ IsDigit(s[f + 2])
             THEN SkipDigits(s, f + 2)
        ELSE f
    ELSE f

\* The end of the fraction part from position k on, then the exponent.
NumberFrac(s, k) ==
    NumberExp(s, IF k # 0 /\ k + 1 <= Len(s) /\ s[k] = 46 /\ IsDigit(s[k + 1])
                 THEN SkipDigits(s, k + 1) ELSE k)

\* The end of the integer part from position j on, then the rest.
NumberInt(s, j) ==
    NumberFrac(s, IF j > Len(s) \/ ~IsDigit(s[j]) THEN 0
                  ELSE IF s[j] = 48 THEN j + 1
                  ELSE SkipDigits(s, j))

\* The end of the match of NUMBER_RE = (-?(?:0|[1-9]\d*))(\.\d+)?([eE][-+]?\d+)?
\* at i, or 0 when it does not match.
NumberEnd(s, i) == NumberInt(s, IF i <= Len(s) /\ s[i] = 45 THEN i + 1 ELSE i)

\* Whether the literal w stands at s[i..].
At(s, i, w) == i + Len(w) - 1 <= Len(s) /\ SubSeq(s, i, i + Len(w) - 1) = w

\* The first position from i on that holds a quote, a backslash or a
\* control character, Len(s) + 1 when there is none.
NextSpecial(s, i) ==
    LET sp == {j \in i..Len(s) : s[j] = 34 \/ s[j] = 92 \/ s[j] < 32}
    IN  IF sp = {} THEN Len(s) + 1 ELSE CHOOSE j \in sp : \A k \in sp : j <= k

\* json.decoder.py_scanstring (strict): the string whose opening quote
\* precedes position i, scanned a run of plain characters at a time.
RECURSIVE ScanString(_, _, _)

\* A \uXXXX escape at j: u its value, lo the value of a \uXXXX that follows
\* it (-1 when there is none); a surrogate pair is one character.
ScanUnicode(s, j, got, u, lo) ==
    IF u < 0 THEN JsonFail
    ELSE IF u >= 55296 /\ u <= 56319 /\ lo >= 56320 /\ lo <= 57343 THEN
        ScanString(s, j + 12, Append(got, 65536 + ((u - 55296) * 1024) + (lo - 56320)))
    ELSE ScanString(s, j + 6, Append(got, u))

\* The character at j ends the run: the closing quote, or an escape.
ScanSpecial(s, j, got) ==
    IF j > Len(s) THEN JsonFail
    ELSE IF s[j] = 34 THEN JsonOk("str", got, j + 1)
    ELSE IF s[j] < 32 THEN JsonFail
    ELSE IF j + 1 > Len(s) THEN JsonFail
    ELSE IF s[j + 1] = 117 THEN
        ScanUnicode(s, j, got, Hex4(s, j + 2),
                    IF At(s, j + 6, <<92, 117>>) THEN Hex4(s, j + 8) ELSE -1)
    ELSE IF s[j + 1] \in {34, 92, 47} THEN ScanString(s, j + 2, Append(got, s[j + 1]))
    ELSE IF s[j + 1] = 98 THEN ScanString(s, j + 2, Append(got, 8))
    ELSE IF s[j + 1] = 102 THEN ScanString(s, j + 2, Append(got, 12))
    ELSE IF s[j + 1] = 110 THEN ScanString(s, j + 2, Append(got, 10))
    ELSE IF s[j + 1] = 114 THEN ScanString(s, j + 2, Append(got, 13))
    ELSE IF s[j + 1] = 116 THEN ScanString(s, j + 2, Append(got, 9))
    ELSE JsonFail

ScanRun(s, i, j, out) == ScanSpecial(s, j, out \o SubSeq(s, i, j - 1))

ScanString(s, i, out) == ScanRun(s, i, NextSpecial(s, i), out)

\* json.scanner.py_make_scanner's _scan_once, with JSONObject and JSONArray.
\* A value is [t, v]: t the type, v the str, the bool, the members (a
\* sequence of [k, val]) of an object or the items of an array.
RECURSIVE ScanOnce(_, _)
RECURSIVE ScanMembers(_, _, _)
RECURSIVE ScanItems(_, _, _)

\* After a member's value: "}" ends the object, "," brings the next member.
MemberEnd(s, got, d) ==
    IF d > Len(s) THEN JsonFail
    ELSE IF s[d] = 125 THEN JsonOk("obj", got, d + 1)
    ELSE IF s[d] = 44 THEN ScanMembers(s, SkipWs(s, d + 1), got)
    ELSE JsonFail

MemberValue(s, out, key, val) ==
    IF ~val.ok THEN JsonFail
    ELSE MemberEnd(s, Append(out, [k |-> key.val.v, val |-> val.val]), SkipWs(s, val.end))

MemberColon(s, out, key, c) ==
    IF c > Len(s) \/ s[c] # 58 THEN JsonFail
    ELSE MemberValue(s, out, key, ScanOnce(s, SkipWs(s, c + 1)))

MemberKey(s, out, key) ==
    IF ~key.ok THEN JsonFail
    ELSE MemberColon(s, out, key, SkipWs(s, key.end))

\* The members of an object from the key expected at i.
ScanMembers(s, i, out) ==
    IF i > Len(s) \/ s[i] # 34 THEN JsonFail
    ELSE MemberKey(s, out, ScanString(s, i + 1, <<>>))

\* After an item: "]" ends the array, "," brings the next item.
ItemEnd(s, got, d) ==
    IF d > Len(s) THEN JsonFail
    ELSE IF s[d] = 93 THEN JsonOk("arr", got, d + 1)
    ELSE IF s[d] = 44 THEN ScanItems(s, SkipWs(s, d + 1), got)
    ELSE JsonFail

ItemValue(s, out, val) ==
    IF ~val.ok THEN JsonFail
    ELSE ItemEnd(s, Append(out, val.val), SkipWs(s, val.end))

\* The items of an array from the value expected at i.
ScanItems(s, i, out) == ItemValue(s, out, ScanOnce(s, i))

\* An object whose "{" precedes position j.
ScanObject(s, j) ==
    IF j <= Len(s) /\ s[j] = 125 THEN JsonOk("obj", <<>>, j + 1)
    ELSE ScanMembers(s, j, <<>>)

\* An array whose "[" precedes position j.
ScanArray(s, j) ==
    IF j <= Len(s) /\ s[j] = 93 THEN JsonOk("arr", <<>>, j + 1)
    ELSE ScanItems(s, j, <<>>)

ScanNumber(s, end) == IF end # 0 THEN JsonOk("num", <<>>, end) ELSE JsonFail

ScanOnce(s, i) ==
    IF i > Len(s) THEN JsonFail
    ELSE IF s[i] = 34 THEN ScanString(s, i + 1, <<>>)
    ELSE IF s[i] = 123 THEN ScanObject(s, SkipWs(s, i + 1))
    ELSE IF s[i] = 91 THEN ScanArray(s, SkipWs(s, i + 1))
    ELSE IF At(s, i, <<110, 117, 108, 108>>) THEN JsonOk("null", <<>>, i + 4)
    ELSE IF At(s, i, <<116, 114, 117, 101>>) THEN JsonOk("bool", TRUE, i + 4)
    ELSE IF At(s, i, <<102, 97, 108, 115, 101>>) THEN JsonOk("bool", FALSE, i + 5)
    ELSE IF At(s, i, <<78, 97, 78>>) THEN JsonOk("num", <<>>, i + 3)
    ELSE IF At(s, i, <<73, 110, 102, 105, 110, 105, 116, 121>>) THEN JsonOk("num", <<>>, i + 8)
    ELSE IF At(s, i, <<45, 73, 110, 102, 105, 110, 105, 116, 121>>) THEN JsonOk("num", <<>>, i + 9)
    ELSE ScanNumber(s, NumberEnd(s, i))

\* The value scanned must be followed by whitespace only.
JsonResult(s, r) ==
    IF r.ok /\ SkipWs(s, r.end) = Len(s) + 1
    THEN [err |-> "", val |-> r.val]
    ELSE [err |-> "JSONDecodeError", val |-> JsonFail.val]

\* json.loads(str): one value between optional whitespace, nothing after it;
\* anything else is a JSONDecodeError.
JsonLoads(s) == JsonResult(s, ScanOnce(s, SkipWs(s, 1)))

(***************************************************************************)
(* ProxyData and the token codec                                           *)
(***************************************************************************)

M3U8_SUFFIX == <<46, 109, 51, 117, 56>>    \* ".m3u8"

\* A ProxyData value: url, origin and referer (None when absent) and src.
ProxyData(url, origin, referer, src) ==
    [url |-> url, origin |-> origin, referer |-> referer, src |-> src]

\* ProxyData.dict(exclude_none=True) through json.dumps(..., separators=(",", ":")):
\* the fields in declaration order, a None field left out.
JsonDumps(d) ==
    <<123, 34, 117, 114, 108, 34, 58>> \o JsonString(d.url)
    \o (IF d.origin = None THEN <<>> ELSE <<44, 34, 111, 114, 105, 103, 105, 110, 34, 58>> \o JsonString(d.origin))
    \o (IF d.referer = None THEN <<>> ELSE <<44, 34, 114, 101, 102, 101, 114, 101, 114, 34, 58>> \o JsonString(d.referer))
    \o <<44, 34, 115, 114, 99, 34, 58>> \o (IF d.src THEN <<116, 114, 117, 101>> ELSE <<102, 97, 108, 115, 101>>)
    \o <<125>>

\* The encoder of rewrite_m3u8_urls: compact JSON, URL-safe base64, the "="
\* padding stripped.
encode_proxy_data(d) == RStripEq(B64Encode(Utf8Encode(JsonDumps(d))))

\* The first step without its test: the last five characters always go.
strip_m3u8_suffix_always(t) == DropLast(t, 5)

\* The decoder's first step: base64_data[:-5] when it ends with ".m3u8".
strip_m3u8_suffix(t) == IF EndsWith(t, M3U8_SUFFIX) THEN DropLast(t, 5) ELSE t

\* The token left without padding.
add_padding_none(t) == t

\* "=" * padding_needed appended, padding_needed = (4 - len % 4) % 4.
add_padding(t) == t \o [i \in 1..((4 - (Len(t) % 4)) % 4) |-> 61]

\* Whether the object has a member named k, and the value of its last one
\* (a dict keeps the last of two equal keys).
HasKey(obj, k) == \E i \in 1..Len(obj.v) : obj.v[i].k = k

GetKey(obj, k) ==
    obj.v[CHOOSE i \in 1..Len(obj.v) :
              obj.v[i].k = k /\ \A j \in (i + 1)..Len(obj.v) : obj.v[j].k # k].val

OptionalStr(obj, k) ==
    IF ~HasKey(obj, k) \/ GetKey(obj, k).t = "null" THEN None ELSE GetKey(obj, k).v

\* ProxyData(**json_data): a TypeError when json_data is no dict, a
\* ValidationError when a field is missing or of the wrong type. url is a
\* required str (any str, the empty one too); origin and referer are
\* Optional[str]; src is a bool, False when absent. (The coercions pydantic
\* applies to values of other types are not modelled: such a value counts as
\* invalid.)
validate_proxy_data(j) ==
    IF j.t # "obj" THEN [err |-> "TypeError", data |-> ProxyData(<<>>, None, None, FALSE)]
    ELSE IF \/ ~HasKey(j, <<117, 114, 108>>) \/ GetKey(j, <<117, 114, 108>>).t # "str"
            \/ \E k \in {<<111, 114, 105, 103, 105, 110>>, <<114, 101, 102, 101, 114, 101, 114>>} :
                    HasKey(j, k) /\ GetKey(j, k).t \notin {"str", "null"}
            \/ HasKey(j, <<115, 114, 99>>) /\ GetKey(j, <<115, 114, 99>>).t # "bool"
    THEN [err |-> "ValidationError", data |-> ProxyData(<<>>, None, None, FALSE)]
    ELSE [err |-> "",
          data |-> ProxyData(GetKey(j, <<117, 114, 108>>).v,
                             OptionalStr(j, <<111, 114, 105, 103, 105, 110>>),
                             OptionalStr(j, <<114, 101, 102, 101, 114, 101, 114>>),
                             IF HasKey(j, <<115, 114, 99>>) THEN GetKey(j, <<115, 114, 99>>).v ELSE FALSE)]

NoData == ProxyData(<<>>, None, None, FALSE)

\* decode_proxy_data: the ProxyData of a token, or the exception it ends in.
\* JSONDecodeError, UnicodeDecodeError, binascii.Error and ValidationError are
\* caught and raised again as HTTPException(400); any other exception (the
\* ValueError of a non-ASCII token, the TypeError of a payload that is no
\* object) leaves the function as it is.
decode_validated(data) ==
    IF data.err = "ValidationError" THEN [err |-> "HTTPException400", data |-> NoData]
    ELSE data

decode_json(json) ==
    IF json.err # "" THEN [err |-> "HTTPException400", data |-> NoData]
    ELSE decode_validated(validate_proxy_data(json.val))

decode_text(text) ==
    IF text.err # "" THEN [err |-> "HTTPException400", data |-> NoData]
    ELSE decode_json(JsonLoads(text.text))

decode_bytes(raw) ==
    IF raw.err = "binascii.Error" THEN [err |-> "HTTPException400", data |-> NoData]
    ELSE IF raw.err # "" THEN [err |-> raw.err, data |-> NoData]
    ELSE decode_text(Utf8Decode(raw.bytes))

decode_proxy_data(base64_data) ==
    decode_bytes(B64Decode(add_padding(strip_m3u8_suffix(base64_data))))

(***************************************************************************)
(* URLs (urllib.parse, which httpx.URL.join and the fallback both use).    *)
(* Modelled for URLs without ";" parameters and without characters that    *)
(* httpx.URL would re-encode.                                              *)
(***************************************************************************)

\* str.split(c) for a one-character separator.
SplitOn(s, c) ==
    LET at == SelectSeq(Positions(s), LAMBDA i : s[i] = c)
    IN  [k \in 1..(Len(at) + 1) |->
            SubSeq(s, IF k = 1 THEN 1 ELSE at[k - 1] + 1,
                      IF k > Len(at) THEN Len(s) ELSE at[k] - 1)]

\* c.join(parts)
JoinOn(parts, c) ==
    Flatten([k \in 1..Len(parts) |-> IF k = 1 THEN parts[k] ELSE <<c>> \o parts[k]])

\* s.find(c) for the characters of the set cs: the first position holding
\* one of them, Len(s) + 1 when there is none.
FindAny(s, cs) ==
    LET at == {i \in 1..Len(s) : s[i] \in cs}
    IN  IF at = {} THEN Len(s) + 1 ELSE CHOOSE i \in at : \A j \in at : i <= j

IsAlpha(c) == (c >= 65 /\ c <= 90) \/ (c >= 97 /\ c <= 122)

\* urllib.parse.scheme_chars: letters, digits, "+", "-", "."
IsSchemeChar(c) == IsAlpha(c) \/ IsDigit(c) \/ c \in {43, 45, 46}

\* The position of the ":" that ends the scheme of url, 0 when url starts
\* with no scheme.
SchemeEnd(url) ==
    LET colon == FindAny(url, {58})
    IN  IF /\ colon <= Len(url) /\ colon > 1 /\ IsAlpha(url[1])
           /\ \A i \in 1..(colon - 1) : IsSchemeChar(url[i])
        THEN colon ELSE 0

\* The path and the query of what precedes the fragment.
SplitQuery(scheme, netloc, before_fragment, fragment) ==
    LET qm == FindAny(before_fragment, {63})
    IN  [scheme   |-> scheme,
         netloc   |-> netloc,
         path     |-> SubSeq(before_fragment, 1, qm - 1),
         query    |-> DropFirst(before_fragment, qm),
         fragment |-> fragment]

\* The fragment is what follows the first "#".
SplitFragment(scheme, netloc, tail) ==
    LET hash == FindAny(tail, {35})
    IN  SplitQuery(scheme, netloc, SubSeq(tail, 1, hash - 1), DropFirst(tail, hash))

\* After "//" the netloc runs to the first "/", "?" or "#".
SplitNetloc(scheme, rest) ==
    IF StartsWith(rest, <<47, 47>>)
    THEN LET e == FindAny(DropFirst(rest, 2), {47, 63, 35})
         IN  SplitFragment(scheme, SubSeq(rest, 3, e + 1), DropFirst(rest, e + 1))
    ELSE SplitFragment(scheme, <<>>, rest)

\* urllib.parse.urlsplit(url, scheme): scheme (lower case), netloc, path,
\* query and fragment.
urlsplit(url, default_scheme) ==
    LET e == SchemeEnd(url)
    IN  IF e > 0 THEN SplitNetloc(Lower(SubSeq(url, 1, e - 1)), DropFirst(url, e))
        ELSE SplitNetloc(default_scheme, url)

\* urllib.parse.urlunsplit for a scheme that uses a netloc (http, https).
urlunsplit(scheme, netloc, path, query, fragment) ==
    LET p1 == IF netloc # <<>> \/ (scheme # <<>> /\ ~StartsWith(path, <<47, 47>>))
              THEN <<47, 47>> \o netloc
                   \o (IF path # <<>> /\ path[1] # 47 THEN <<47>> ELSE <<>>) \o path
              ELSE path
        p2 == IF scheme # <<>> THEN scheme \o <<58>> \o p1 ELSE p1
        p3 == IF query # <<>> THEN p2 \o <<63>> \o query ELSE p2
    IN  IF fragment # <<>> THEN p3 \o <<35>> \o fragment ELSE p3

\* The loop of urljoin over the path segments: ".." pops, "." is dropped.
RECURSIVE ResolveSegments(_, _)
ResolveSegments(segments, resolved) ==
    IF segments = <<>> THEN resolved
    ELSE IF Head(segments) = <<46, 46>> THEN
        ResolveSegments(Tail(segments),
                        IF resolved = <<>> THEN resolved ELSE DropLast(resolved, 1))
    ELSE IF Head(segments) = <<46>> THEN ResolveSegments(Tail(segments), resolved)
    ELSE ResolveSegments(Tail(segments), Append(resolved, Head(segments)))

\* segments[1:-1] = filter(None, segments[1:-1])
DropEmptyInner(segments) ==
    SelectSeq([k \in 1..Len(segments) |-> <<k, segments[k]>>],
              LAMBDA e : e[1] = 1 \/ e[1] = Len(segments) \/ e[2] # <<>>)

Seconds(pairs) == [k \in 1..Len(pairs) |-> pairs[k][2]]

\* base_parts: the segments of the base path without its last one, unless
\* that is empty.
BaseParts(bp) == IF bp[Len(bp)] # <<>> THEN DropLast(bp, 1) ELSE bp

\* The resolved segments joined, with an empty last segment after a final
\* "." or "..", "/" when nothing is left.
ResolvedPath(segments, resolved) ==
    LET joined == JoinOn(IF segments[Len(segments)] \in {<<46>>, <<46, 46>>}
                         THEN Append(resolved, <<>>) ELSE resolved, 47)
    IN  IF joined = <<>> THEN <<47>> ELSE joined

JoinSegments(segments) == ResolvedPath(segments, ResolveSegments(segments, <<>>))

\* The path of the joined URL from the base's path and the reference's.
JoinPath(base_path, path) ==
    IF StartsWith(path, <<47>>) THEN JoinSegments(SplitOn(path, 47))
    ELSE JoinSegments(Seconds(DropEmptyInner(
             BaseParts(SplitOn(base_path, 47)) \o SplitOn(path, 47))))

\* urljoin once both URLs are split (b the base, u the reference).
JoinSplit(url, b, u) ==
    IF u.scheme # b.scheme THEN url
    ELSE IF u.netloc # <<>> THEN
        urlunsplit(u.scheme, u.netloc, u.path, u.query, u.fragment)
    ELSE IF u.path = <<>> THEN
        urlunsplit(u.scheme, b.netloc, b.path,
                   IF u.query = <<>> THEN b.query ELSE u.query, u.fragment)
    ELSE urlunsplit(u.scheme, b.netloc, JoinPath(b.path, u.path), u.query, u.fragment)

JoinToBase(url, b) == JoinSplit(url, b, urlsplit(url, b.scheme))

\* urllib.parse.urljoin(base, url) for an http or https base.
urljoin(base, url) ==
    IF base = <<>> THEN url
    ELSE IF url = <<>> THEN base
    ELSE JoinToBase(url, urlsplit(base, <<>>))

\* urlsplit raises ValueError("Invalid IPv6 URL") for a netloc that holds one
\* of "[" and "]" without the other. (A netloc that holds both is outside
\* the model.)
InvalidNetloc(netloc) ==
    (\E i \in 1..Len(netloc) : netloc[i] = 91) # (\E i \in 1..Len(netloc) : netloc[i] = 93)

\* Whether urljoin(base, url) raises: it splits both URLs unless one of them
\* is empty.
urljoin_raises(base, url) ==
    /\ base # <<>> /\ url # <<>>
    /\ \/ InvalidNetloc(urlsplit(base, <<>>).netloc)
       \/ InvalidNetloc(urlsplit(url, <<>>).netloc)

(***************************************************************************)
(* The playlist rewriter                                                   *)
(***************************************************************************)

HTTP_PREFIX == <<104, 116, 116, 112, 58, 47, 47>>     \* "http://"

HTTPS_PREFIX == <<104, 116, 116, 112, 115, 58, 47, 47>>   \* "https://"

\* is_absolute_url
is_absolute_url(url) == StartsWith(url, HTTP_PREFIX) \/ StartsWith(url, HTTPS_PREFIX)

\* ts, m3u8, m4s, mp4, key, aac, mp3, vtt, webvtt
MediaExtensions ==
    {<<116, 115>>, <<109, 51, 117, 56>>, <<109, 52, 115>>, <<109, 112, 52>>, <<107, 101, 121>>, <<97, 97, 99>>, <<109, 112, 51>>, <<118, 116, 116>>, <<119, 101, 98, 118, 116, 116>>}

\* re.search(r"\.(ts|...|webvtt)(\?.*)?$", line, re.IGNORECASE) on a line
\* without line feed: a dot, an extension, then the end or a "?".
MatchesMediaExtension(line) ==
    \E i \in 1..Len(line) : \E ext \in MediaExtensions :
        /\ line[i] = 46
        /\ i + Len(ext) <= Len(line)
        /\ Lower(SubSeq(line, i + 1, i + Len(ext))) = ext
        /\ (i + Len(ext) = Len(line) \/ line[i + Len(ext) + 1] = 63)

\* is_likely_media_url
is_likely_media_url(line) ==
    IF line = <<>> \/ StartsWith(line, <<35>>) THEN FALSE
    ELSE IF StartsWith(line, HTTP_PREFIX) \/ StartsWith(line, HTTPS_PREFIX)
            \/ StartsWith(line, <<47>>) THEN TRUE
    ELSE MatchesMediaExtension(line)

\* resolve_url: an absolute URL as it is, anything else joined to the base.
resolve_url(base_url, relative_url) ==
    IF is_absolute_url(relative_url) THEN relative_url
    ELSE urljoin(base_url, relative_url)

\* Whether resolve_url raises: the join raises in the try and then again in
\* the fallback.
resolve_url_raises(base_url, relative_url) ==
    ~is_absolute_url(relative_url) /\ urljoin_raises(base_url, relative_url)

\* The scheme and host of the request's own URL: scheme://netloc.
server_origin_of(current_url) ==
    LET p == urlsplit(current_url, <<>>)
    IN  p.scheme \o <<58, 47, 47>> \o p.netloc

\* The hint decided on the path of the URL alone.
is_playlist_url_path_only(absolute_url) ==
    Contains(Lower(urlsplit(absolute_url, <<>>).path), M3U8_SUFFIX)

\* ".m3u8" in absolute_url.lower()
is_playlist_url(absolute_url) == Contains(Lower(absolute_url), M3U8_SUFFIX)

\* The descriptor minted for a reference: the parent's origin and referer,
\* src always False.
new_proxy_data(absolute_url, original_data) ==
    ProxyData(absolute_url, original_data.origin, original_data.referer, FALSE)

\* The proxied URL of a candidate line (already stripped).
proxied_url(stripped, original_data, server_origin) ==
    LET absolute_url == resolve_url(original_data.url, stripped)
        token        == encode_proxy_data(new_proxy_data(absolute_url, original_data))
    IN  server_origin \o <<47, 117, 114, 108, 47>> \o token
        \o (IF is_playlist_url(absolute_url) THEN M3U8_SUFFIX ELSE <<>>)

\* The loop appending the stripped text for every line it does not rewrite.
rewrite_line_stripped(line, original_data, server_origin) ==
    IF /\ Strip(line) # <<>> /\ ~StartsWith(Strip(line), <<35>>)
       /\ is_likely_media_url(Strip(line))
       /\ ~resolve_url_raises(original_data.url, Strip(line))
    THEN proxied_url(Strip(line), original_data, server_origin)
    ELSE Strip(line)

\* The body of the loop of rewrite_m3u8_urls: what is appended for one line.
\* An exception while a line is rewritten leaves the line as it is.
rewrite_line(line, original_data, server_origin) ==
    LET stripped == Strip(line)
    IN  IF stripped = <<>> \/ StartsWith(stripped, <<35>>) THEN line
        ELSE IF is_likely_media_url(stripped)
             THEN IF resolve_url_raises(original_data.url, stripped) THEN line
                  ELSE proxied_url(stripped, original_data, server_origin)
        ELSE line

\* rewrite_m3u8_urls
rewrite_m3u8_urls(content, original_data, current_url) ==
    LET lines == SplitLines(content)
    IN  JoinLines([k \in 1..Len(lines) |->
            rewrite_line(lines[k], original_data, server_origin_of(current_url))])

(***************************************************************************)
(* Content classification                                                  *)
(***************************************************************************)

PLAYLIST_MIME == <<97, 112, 112, 108, 105, 99, 97, 116, 105, 111, 110, 47, 118, 110, 100, 46, 97, 112, 112, 108, 101, 46, 109, 112, 101, 103, 117, 114, 108>>   \* "application/vnd.apple.mpegurl"

\* determine_content_type: the URL's extension first, in a fixed order, then
\* the upstream content type, then "application/octet-stream".
determine_content_type(url, response_content_type) ==
    LET url_lower == Lower(url)
    IN  IF Contains(url_lower, <<46, 109, 51, 117, 56>>) THEN PLAYLIST_MIME
        ELSE IF Contains(url_lower, <<46, 116, 115>>) THEN <<118, 105, 100, 101, 111, 47, 109, 112, 50, 116>>
        ELSE IF Contains(url_lower, <<46, 109, 112, 52>>) THEN <<118, 105, 100, 101, 111, 47, 109, 112, 52>>
        ELSE IF Contains(url_lower, <<46, 119, 101, 98, 118, 116, 116>>) \/ Contains(url_lower, <<46, 118, 116, 116>>)
             THEN <<116, 101, 120, 116, 47, 118, 116, 116>>
        ELSE IF Contains(url_lower, <<46, 109, 52, 115>>) THEN <<118, 105, 100, 101, 111, 47, 105, 115, 111, 46, 115, 101, 103, 109, 101, 110, 116>>
        ELSE IF response_content_type # <<>> THEN response_content_type
        ELSE <<97, 112, 112, 108, 105, 99, 97, 116, 105, 111, 110, 47, 111, 99, 116, 101, 116, 45, 115, 116, 114, 101, 97, 109>>

(***************************************************************************)
(* The request handler m3u8_proxy and its cache                            *)
(***************************************************************************)

\* The requests the server handles at the same time.
Requests == {1, 2}

\* The base64 text of a JSON payload, as a client would build a token.
TokenOf(payload) == RStripEq(B64Encode(Utf8Encode(payload)))

URL_PLAYLIST == <<104, 116, 116, 112, 58, 47, 47, 104, 47, 97, 46, 109, 51, 117, 56>>   \* "http://h/a.m3u8"

\* {"url":"http://h/a.m3u8","src":true}: an entry playlist.
TokenEntry == encode_proxy_data(ProxyData(URL_PLAYLIST, None, None, TRUE))

\* The same token with the extension hint.
TokenEntryHint == TokenEntry \o M3U8_SUFFIX

\* {"url":"http://h/a.m3u8","src":false}: a playlist that is not an entry.
TokenNested == encode_proxy_data(ProxyData(URL_PLAYLIST, None, None, FALSE))

\* {"url":"http://h/p","origin":"http://o","src":true}: no extension in the URL.
TokenNoExt == encode_proxy_data(ProxyData(<<104, 116, 116, 112, 58, 47, 47, 104, 47, 112>>, <<104, 116, 116, 112, 58, 47, 47, 111>>, None, TRUE))

\* {"url":""}
TokenEmptyUrl == TokenOf(<<123, 34, 117, 114, 108, 34, 58, 34, 34, 125>>)

\* {"src":true}
TokenNoUrl == TokenOf(<<123, 34, 115, 114, 99, 34, 58, 116, 114, 117, 101, 125>>)

\* []  (well-formed JSON that is no object)
TokenList == TokenOf(<<91, 93>>)

\* {  (no JSON)
TokenBadJson == TokenOf(<<123>>)

\* "A": one data character, no base64
TokenBadBase64 == <<65>>

\* "not-valid-base64!!!": base64 of bytes that are no UTF-8
TokenNotValid == <<110, 111, 116, 45, 118, 97, 108, 105, 100, 45, 98, 97, 115, 101, 54, 52, 33, 33, 33>>

\* A token with a non-ASCII character (U+00E9).
TokenNonAscii == <<233>>

ValidTokens == {TokenEntry, TokenEntryHint, TokenNested, TokenNoExt}

\* Tokens that do not decode to a valid descriptor.
MalformedTokens ==
    {TokenNoUrl, TokenList, TokenBadJson, TokenBadBase64, TokenNotValid, TokenNonAscii}

Tokens == ValidTokens \cup MalformedTokens \cup {TokenEmptyUrl}

\* decode_proxy_data on the tokens of the model.
Decoded == [t \in Tokens |-> decode_proxy_data(t)]

PLAYLIST_BODY == <<35, 69, 88, 84, 77, 51, 85, 10, 115, 101, 103, 46, 116, 115, 10>>     \* "#EXTM3U\nseg.ts\n"

PLAYLIST_BODY_CRLF == <<35, 69, 88, 84, 77, 51, 85, 13, 10, 118, 46, 109, 51, 117, 56>>   \* "#EXTM3U\r\nv.m3u8"

\* What the upstream may answer to a GET that succeeds: a playlist declared
\* as one, and a playlist declared as plain text.
UpstreamResponses ==
    { [body |-> PLAYLIST_BODY, content_type |-> PLAYLIST_MIME,
       headers |-> {<<"ETag", "e1">>, <<"Content-Length", "15">>}],
      [body |-> PLAYLIST_BODY_CRLF, content_type |-> <<116, 101, 120, 116, 47, 112, 108, 97, 105, 110>>,   \* "text/plain"
       headers |-> {<<"Last-Modified", "m1">>, <<"Server", "s">>}] }

\* How a GET may fail: a non-success status, a timeout, another transport
\* error.
UpstreamFailures ==
    { [kind |-> "status", code |-> 404], [kind |-> "status", code |-> 503],
      [kind |-> "timeout", code |-> 0], [kind |-> "request_error", code |-> 0] }

NoUpstream == [body |-> <<>>, content_type |-> <<>>, headers |-> {}]

NoFailure == [kind |-> "", code |-> 0]

NoEntry == [present |-> FALSE, body |-> <<>>, content_type |-> <<>>, headers |-> {},
            by |-> <<>>]

NoResponse == [status |-> 0, body |-> <<>>, media_type |-> <<>>, headers |-> {},
               from_cache |-> FALSE, by |-> <<>>]

NoSent == [url |-> None, origin |-> None, referer |-> None]

\* str(request.url) of a request for token t.
request_url(t) == <<104, 116, 116, 112, 58, 47, 47, 112, 114, 111, 120, 121, 58, 56, 48, 48, 48, 47, 117, 114, 108, 47>> \o t

\* The key taken after the suffix is stripped.
cache_key_stripped(base64_data) == strip_m3u8_suffix(base64_data)

\* cache_key = base64_data
cache_key(base64_data) == base64_data

\* The Origin and Referer of the upstream request: set when the field is a
\* non-empty str.
request_headers(proxy_data) ==
    [url     |-> proxy_data.url,
     origin  |-> IF proxy_data.origin \notin {None, <<>>} THEN proxy_data.origin ELSE None,
     referer |-> IF proxy_data.referer \notin {None, <<>>} THEN proxy_data.referer ELSE None]

\* The handlers without the one for TimeoutException.
error_status_no_timeout(failure) ==
    IF failure.kind = "status" THEN failure.code ELSE 502

\* The status of the HTTPException an upstream failure is turned into:
\* HTTPStatusError, then TimeoutException, then RequestError.
error_status(failure) ==
    IF failure.kind = "status" THEN failure.code
    ELSE IF failure.kind = "timeout" THEN 504
    ELSE 502

\* is_m3u8
is_m3u8(url, content_type) ==
    Contains(Lower(url), M3U8_SUFFIX) \/ content_type = PLAYLIST_MIME

\* will_modify without the src flag.
will_modify_any_playlist(proxy_data, content_type) ==
    is_m3u8(proxy_data.url, content_type)

\* will_modify = proxy_data.src and is_m3u8
will_modify(proxy_data, content_type) ==
    proxy_data.src /\ is_m3u8(proxy_data.url, content_type)

\* content_bytes: response.text rewritten and encoded again, or
\* response.content.
content_bytes(proxy_data, upstream_response, content_type, current_url) ==
    IF will_modify(proxy_data, content_type)
    THEN Utf8Encode(rewrite_m3u8_urls(Utf8Decode(upstream_response.body).text,
                                      proxy_data, current_url))
    ELSE upstream_response.body

FixedResponseHeaders ==
    {<<"Cache-Control", "public, max-age=3600">>,
     <<"Access-Control-Allow-Origin", "*">>,
     <<"Access-Control-Expose-Headers", "*">>}

\* response_headers: the fixed three, and the upstream's Content-Length,
\* Last-Modified and ETag when the body is not rewritten.
response_headers(proxy_data, upstream_response, content_type) ==
    FixedResponseHeaders
    \cup (IF will_modify(proxy_data, content_type) THEN {}
          ELSE {h \in upstream_response.headers :
                    h[1] \in {"Content-Length", "Last-Modified", "ETag"}})

\* What the handler makes of an upstream response: the tuple it caches
\* (content_bytes, content_type, response_headers), and whether it rewrote.
handle_response(proxy_data, upstream_response, content_type, current_url) ==
    [body         |-> content_bytes(proxy_data, upstream_response, content_type, current_url),
     content_type |-> content_type,
     headers      |-> response_headers(proxy_data, upstream_response, content_type),
     modified     |-> will_modify(proxy_data, content_type)]

handle_upstream(proxy_data, upstream_response, current_url) ==
    handle_response(proxy_data, upstream_response,
                    determine_content_type(proxy_data.url, upstream_response.content_type),
                    current_url)

\* handle_upstream on the tokens and the upstream responses of the model.
Handled ==
    [t \in ValidTokens, u \in UpstreamResponses |->
        handle_upstream(Decoded[t].data, u, request_url(t))]

\* The cache entry of a handled response, with the token that stored it.
cache_entry(h, by) ==
    [present |-> TRUE, body |-> h.body, content_type |-> h.content_type,
     headers |-> h.headers, by |-> by]

\* Response(content=content_bytes, media_type=content_type, headers=response_headers)
fresh_response(h, by) ==
    [status |-> 200, body |-> h.body, media_type |-> h.content_type,
     headers |-> h.headers, from_cache |-> FALSE, by |-> by]

\* Response(content=content, media_type=content_type, headers=headers) of a
\* cached tuple.
cached_response(entry) ==
    [status |-> 200, body |-> entry.body, media_type |-> entry.content_type,
     headers |-> entry.headers, from_cache |-> TRUE, by |-> entry.by]

VARIABLES
    pc,          \* per request: "idle", "fetching" (awaiting client.get), "done"
    tok,         \* per request: base64_data, the raw path segment
    cache,       \* the cache: token -> entry
    resp,        \* per request: the response sent
    sent,        \* per request: the upstream request issued
    upstream,    \* per request: the upstream response received
    failure,     \* per request: the upstream failure met
    fetches,     \* per request: upstream requests issued
    cache_gets,  \* per request: cache.get calls
    cache_sets,  \* per request: cache.set calls
    stored,      \* per request: the tuple passed to cache.set
    rewrote      \* per request: rewrite_m3u8_urls was called

hvars == <<pc, tok, cache, resp, sent, upstream, failure, fetches, cache_gets,
           cache_sets, stored, rewrote>>

(***************************************************************************)
(* The codec on its own: a descriptor is encoded, the token may get the    *)
(* ".m3u8" hint appended (by the rewriter, or by a client, any number of   *)
(* times), and is decoded; the suffix-stripping step is applied repeatedly.*)
(***************************************************************************)

\* ".m3u8" suffixes a token may carry.
MaxHints == 2

\* Applications of the suffix-stripping step.
MaxStrips == 2

CodecUrls ==
    { URL_PLAYLIST,
      <<104, 116, 116, 112, 115, 58, 47, 47, 99, 100, 110, 46, 101, 120, 97, 109, 112, 108, 101, 46, 99, 111, 109, 47, 109, 46, 109, 51, 117, 56, 63, 120, 61, 37, 50, 48, 38, 121, 61, 49>>,   \* percent-encoding, query
      <<97, 34, 98, 92, 99>>,                                    \* a quote and a backslash
      <<233, 47, 10, 8364>>,                          \* non-ASCII, a line feed
      <<120>> }

CodecDescriptors ==
    { ProxyData(u, o, r, s) :
        u \in CodecUrls, o \in {None, <<>>, <<104, 116, 116, 112, 58, 47, 47, 111>>}, r \in {None, <<104, 116, 116, 112, 58, 47, 47, 114, 47>>},
        s \in BOOLEAN }

NoDecoded == [err |-> "none", data |-> NoData]

VARIABLES
    c_stage,     \* "new", "encoded", "decoded"
    c_data,      \* the descriptor
    c_token,     \* the token, with its hints
    c_hints,     \* ".m3u8" suffixes appended
    c_decoded,   \* decode_proxy_data(c_token)
    c_strips,    \* applications of the stripping step so far
    c_stripped   \* the results of the applications, in order

cvars == <<c_stage, c_data, c_token, c_hints, c_decoded, c_strips, c_stripped>>

(***************************************************************************)
(* The rewriter on its own: a playlist is put together line by line and    *)
(* rewritten for a parent descriptor and a request URL.                    *)
(***************************************************************************)

\* Lines of a playlist.
MaxLines == 2

PlaylistLines ==
    { <<35, 69, 88, 84, 77, 51, 85, 13>>,          \* a tag, CRLF line ending
      <<>>,                   \* an empty line
      <<115, 101, 103, 95, 48, 48, 49, 46, 116, 115, 13>>,       \* a relative segment, CRLF line ending
      <<32, 46, 46, 47, 107, 46, 107, 101, 121>>,          \* leading space, dot segment
      <<104, 116, 116, 112, 115, 58, 47, 47, 111, 47, 97, 46, 116, 115>>,     \* an absolute URL
      <<47, 120, 47, 86, 46, 77, 51, 85, 56>>,          \* root-relative, upper-case extension
      <<115, 46, 116, 115, 63, 120, 61, 46, 109, 51, 117, 56>>,       \* ".m3u8" in the query only
      <<47, 47, 91, 120, 47, 97, 46, 116, 115, 13>>,   \* a host that cannot be parsed, CRLF line ending
      <<104, 101, 108, 108, 111, 13>> }           \* no reference, CRLF line ending

RewriteParents ==
    { ProxyData(<<104, 116, 116, 112, 115, 58, 47, 47, 99, 100, 110, 46, 101, 120, 97, 109, 112, 108, 101, 46, 99, 111, 109, 47, 115, 116, 114, 101, 97, 109, 47, 105, 110, 100, 101, 120, 46, 109, 51, 117, 56>>, None, None, TRUE),
      ProxyData(<<104, 116, 116, 112, 58, 47, 47, 104, 47, 97, 47, 98, 46, 109, 51, 117, 56, 63, 116, 61, 49>>, <<104, 116, 116, 112, 58, 47, 47, 111>>, <<104, 116, 116, 112, 58, 47, 47, 114, 47>>, TRUE) }

RewriteRequestUrls == {<<104, 116, 116, 112, 58, 47, 47, 112, 114, 111, 120, 121, 58, 56, 48, 48, 48, 47, 117, 114, 108, 47, 97, 98, 99, 46, 109, 51, 117, 56>>, <<104, 116, 116, 112, 115, 58, 47, 47, 112, 46, 101, 120, 97, 109, 112, 108, 101, 47, 117, 114, 108, 47, 120, 63, 121, 61, 49>>}

VARIABLES
    r_stage,        \* "build", "done"
    r_lines,        \* lines added so far
    r_content,      \* the playlist text
    r_parent,       \* original_data
    r_current_url,  \* current_url
    r_output        \* rewrite_m3u8_urls(r_content, r_parent, r_current_url)

rvars == <<r_stage, r_lines, r_content, r_parent, r_current_url, r_output>>

vars == <<hvars, cvars, rvars>>

(***************************************************************************)
(* Initial states                                                          *)
(***************************************************************************)

HandlerInit ==
    /\ pc = [r \in Requests |-> "idle"]
    /\ tok = [r \in Requests |-> <<>>]
    /\ cache = [t \in Tokens |-> NoEntry]
    /\ resp = [r \in Requests |-> NoResponse]
    /\ sent = [r \in Requests |-> NoSent]
    /\ upstream = [r \in Requests |-> NoUpstream]
    /\ failure = [r \in Requests |-> NoFailure]
    /\ fetches = [r \in Requests |-> 0]
    /\ cache_gets = [r \in Requests |-> 0]
    /\ cache_sets = [r \in Requests |-> 0]
    /\ stored = [r \in Requests |-> NoEntry]
    /\ rewrote = [r \in Requests |-> FALSE]

CodecIdle ==
    /\ c_stage = "new"
    /\ c_token = <<>>
    /\ c_hints = 0
    /\ c_decoded = NoDecoded
    /\ c_strips = 0
    /\ c_stripped = <<>>

RewriteIdle ==
    /\ r_stage = "build"
    /\ r_lines = 0
    /\ r_content = <<>>
    /\ r_output = <<>>

Init ==
    /\ HandlerInit
    /\ CodecIdle /\ c_data = NoData
    /\ RewriteIdle /\ r_parent = NoData /\ r_current_url = <<>>

CodecInit ==
    /\ HandlerInit
    /\ CodecIdle /\ c_data \in CodecDescriptors
    /\ RewriteIdle /\ r_parent = NoData /\ r_current_url = <<>>

RewriteInit ==
    /\ HandlerInit
    /\ CodecIdle /\ c_data = NoData
    /\ RewriteIdle /\ r_parent \in RewriteParents /\ r_current_url \in RewriteRequestUrls

(***************************************************************************)
(* m3u8_proxy. The handler runs without interruption up to its one await,  *)
(* the upstream GET, and again from the GET's end to its return.           *)
(***************************************************************************)

\* decode_proxy_data raises: HTTPException(400), or an exception nothing
\* catches, which the server answers with 500. Nothing else has run.
DecodeFails(r, t) ==
    /\ pc[r] = "idle"
    /\ tok' = [tok EXCEPT ![r] = t]
    /\ Decoded[t].err # ""
    /\ pc' = [pc EXCEPT ![r] = "done"]
    /\ resp' = [resp EXCEPT ![r] =
                  [NoResponse EXCEPT !.status =
                      IF Decoded[t].err = "HTTPException400" THEN 400 ELSE 500]]
    /\ UNCHANGED <<cache, sent, upstream, failure, fetches, cache_gets, cache_sets,
                   stored, rewrote, cvars, rvars>>

\* cache.get(cache_key) finds an entry: it is the response.
CacheHit(r, t) ==
    /\ pc[r] = "idle"
    /\ tok' = [tok EXCEPT ![r] = t]
    /\ Decoded[t].err = ""
    /\ cache[cache_key(t)].present
    /\ cache_gets' = [cache_gets EXCEPT ![r] = @ + 1]
    /\ pc' = [pc EXCEPT ![r] = "done"]
    /\ resp' = [resp EXCEPT ![r] = cached_response(cache[cache_key(t)])]
    /\ UNCHANGED <<cache, sent, upstream, failure, fetches, cache_sets, stored, rewrote,
                   cvars, rvars>>

\* cache.get(cache_key) finds nothing: the upstream GET is issued.
CacheMiss(r, t) ==
    /\ pc[r] = "idle"
    /\ tok' = [tok EXCEPT ![r] = t]
    /\ Decoded[t].err = ""
    /\ ~cache[cache_key(t)].present
    /\ cache_gets' = [cache_gets EXCEPT ![r] = @ + 1]
    /\ pc' = [pc EXCEPT ![r] = "fetching"]
    /\ sent' = [sent EXCEPT ![r] = request_headers(Decoded[t].data)]
    /\ fetches' = [fetches EXCEPT ![r] = @ + 1]
    /\ UNCHANGED <<cache, resp, upstream, failure, cache_sets, stored, rewrote,
                   cvars, rvars>>

\* The handler from the GET's success to its return: h is what it makes of
\* the upstream response; cache.set, then the response.
Complete(r, h) ==
    /\ rewrote' = [rewrote EXCEPT ![r] = h.modified]
    /\ cache' = [cache EXCEPT ![cache_key(tok[r])] = cache_entry(h, tok[r])]
    /\ stored' = [stored EXCEPT ![r] = cache_entry(h, tok[r])]
    /\ resp' = [resp EXCEPT ![r] = fresh_response(h, tok[r])]

\* The GET succeeds (an http or https URL only): classify, rewrite if it
\* applies, cache.set, respond.
FetchSucceeds(r, u) ==
    /\ pc[r] = "fetching"
    /\ is_absolute_url(sent[r].url)
    /\ Complete(r, Handled[tok[r], u])
    /\ upstream' = [upstream EXCEPT ![r] = u]
    /\ cache_sets' = [cache_sets EXCEPT ![r] = @ + 1]
    /\ pc' = [pc EXCEPT ![r] = "done"]
    /\ UNCHANGED <<tok, sent, failure, fetches, cache_gets, cvars, rvars>>

\* The failure path deleting the entry of the token as well.
FetchFails_invalidating(r, f) ==
    /\ pc[r] = "fetching"
    /\ is_absolute_url(sent[r].url) \/ f.kind = "request_error"
    /\ failure' = [failure EXCEPT ![r] = f]
    /\ resp' = [resp EXCEPT ![r] = [NoResponse EXCEPT !.status = error_status(f)]]
    /\ pc' = [pc EXCEPT ![r] = "done"]
    /\ cache' = [cache EXCEPT ![cache_key(tok[r])] = NoEntry]
    /\ UNCHANGED <<tok, sent, upstream, fetches, cache_gets, cache_sets, stored,
                   rewrote, cvars, rvars>>

\* The GET fails: an HTTPException with the status of the failure. A URL
\* that is no http or https URL can only fail, as a transport error.
FetchFails(r, f) ==
    /\ pc[r] = "fetching"
    /\ is_absolute_url(sent[r].url) \/ f.kind = "request_error"
    /\ failure' = [failure EXCEPT ![r] = f]
    /\ resp' = [resp EXCEPT ![r] = [NoResponse EXCEPT !.status = error_status(f)]]
    /\ pc' = [pc EXCEPT ![r] = "done"]
    /\ UNCHANGED <<tok, cache, sent, upstream, fetches, cache_gets, cache_sets, stored,
                   rewrote, cvars, rvars>>

\* The cache store evicts an entry (its size bound, least recently used).
Evict(t) ==
    /\ cache[t].present
    /\ cache' = [cache EXCEPT ![t] = NoEntry]
    /\ UNCHANGED <<pc, tok, resp, sent, upstream, failure, fetches, cache_gets,
                   cache_sets, stored, rewrote, cvars, rvars>>

\* The request is over; the handler can take the next one.
Finish(r) ==
    /\ pc[r] = "done"
    /\ pc' = [pc EXCEPT ![r] = "idle"]
    /\ tok' = [tok EXCEPT ![r] = <<>>]
    /\ resp' = [resp EXCEPT ![r] = NoResponse]
    /\ sent' = [sent EXCEPT ![r] = NoSent]
    /\ upstream' = [upstream EXCEPT ![r] = NoUpstream]
    /\ failure' = [failure EXCEPT ![r] = NoFailure]
    /\ fetches' = [fetches EXCEPT ![r] = 0]
    /\ cache_gets' = [cache_gets EXCEPT ![r] = 0]
    /\ cache_sets' = [cache_sets EXCEPT ![r] = 0]
    /\ stored' = [stored EXCEPT ![r] = NoEntry]
    /\ rewrote' = [rewrote EXCEPT ![r] = FALSE]
    /\ UNCHANGED <<cache, cvars, rvars>>

Next ==
    \/ \E r \in Requests, t \in Tokens : DecodeFails(r, t)
    \/ \E r \in Requests, t \in Tokens : CacheHit(r, t)
    \/ \E r \in Requests, t \in Tokens : CacheMiss(r, t)
    \/ \E r \in Requests, u \in UpstreamResponses : FetchSucceeds(r, u)
    \/ \E r \in Requests, f \in UpstreamFailures : FetchFails(r, f)
    \/ \E t \in Tokens : Evict(t)
    \/ \E r \in Requests : Finish(r)

Spec == Init /\ [][Next]_vars

(***************************************************************************)
(* The codec's steps                                                       *)
(***************************************************************************)

Encode ==
    /\ c_stage = "new"
    /\ c_token' = encode_proxy_data(c_data)
    /\ c_stage' = "encoded"
    /\ UNCHANGED <<c_data, c_hints, c_decoded, c_strips, c_stripped, hvars, rvars>>

AppendHint ==
    /\ c_stage = "encoded"
    /\ c_hints < MaxHints
    /\ c_token' = c_token \o M3U8_SUFFIX
    /\ c_hints' = c_hints + 1
    /\ UNCHANGED <<c_stage, c_data, c_decoded, c_strips, c_stripped, hvars, rvars>>

Decode ==
    /\ c_stage = "encoded"
    /\ c_decoded' = decode_proxy_data(c_token)
    /\ c_stage' = "decoded"
    /\ UNCHANGED <<c_data, c_token, c_hints, c_strips, c_stripped, hvars, rvars>>

StripSuffix ==
    /\ c_stage = "decoded"
    /\ c_strips < MaxStrips
    /\ c_stripped' = Append(c_stripped,
                            strip_m3u8_suffix(IF c_strips = 0 THEN c_token
                                              ELSE c_stripped[c_strips]))
    /\ c_strips' = c_strips + 1
    /\ UNCHANGED <<c_stage, c_data, c_token, c_hints, c_decoded, hvars, rvars>>

CodecNext == Encode \/ AppendHint \/ Decode \/ StripSuffix

CodecSpec == CodecInit /\ [][CodecNext]_vars

(***************************************************************************)
(* The rewriter's steps                                                    *)
(***************************************************************************)

AddLine(line) ==
    /\ r_stage = "build"
    /\ r_lines < MaxLines
    /\ r_content' = IF r_lines = 0 THEN line ELSE r_content \o <<10>> \o line
    /\ r_lines' = r_lines + 1
    /\ UNCHANGED <<r_stage, r_parent, r_current_url, r_output, hvars, cvars>>

Rewrite ==
    /\ r_stage = "build"
    /\ r_output' = rewrite_m3u8_urls(r_content, r_parent, r_current_url)
    /\ r_stage' = "done"
    /\ UNCHANGED <<r_lines, r_content, r_parent, r_current_url, hvars, cvars>>

RewriteNext == (\E line \in PlaylistLines : AddLine(line)) \/ Rewrite

RewriteSpec == RewriteInit /\ [][RewriteNext]_vars

(***************************************************************************)
(* Properties of the request handler (specification Spec)                  *)
(***************************************************************************)

\* C1: a request whose token does not decode to a valid descriptor is
\* answered with 400, and it makes no upstream fetch and neither reads nor
\* writes the cache.
C1_MalformedTokenIs400 ==
    \A r \in Requests :
        (pc[r] = "done" /\ tok[r] \in MalformedTokens) =>
            /\ resp[r].status = 400
            /\ fetches[r] = 0
            /\ cache_gets[r] = 0
            /\ cache_sets[r] = 0

\* C2: a token whose payload has no url, or an empty url, is rejected with
\* 400 before any cache lookup or upstream fetch, and no upstream fetch is
\* ever issued with an empty target URL.
C2_MissingUrlIs400 ==
    \A r \in Requests :
        /\ tok[r] \in {TokenNoUrl, TokenEmptyUrl} =>
              /\ fetches[r] = 0
              /\ cache_gets[r] = 0
              /\ pc[r] = "done" => resp[r].status = 400
        /\ fetches[r] > 0 => sent[r].url # <<>>

\* The bytes of the rewritten playlist, for the tokens and the upstream
\* responses of the model.
RewrittenBody ==
    [t \in ValidTokens, u \in UpstreamResponses |->
        Utf8Encode(rewrite_m3u8_urls(Utf8Decode(u.body).text, Decoded[t].data,
                                     request_url(t)))]

\* C3: on a cache miss the fetched body is rewritten if and only if the
\* descriptor has src = true and the content is a playlist (".m3u8" in the
\* target URL, case-insensitively, or the playlist MIME type as the resolved
\* content type); otherwise the response body and the stored body are the
\* upstream bytes.
C3_RewriteOnlyEntryPlaylists ==
    \A r \in Requests :
        (pc[r] = "done" /\ cache_sets[r] = 1) =>
            IF /\ Decoded[tok[r]].data.src
               /\ \/ Contains(Lower(Decoded[tok[r]].data.url), M3U8_SUFFIX)
                  \/ resp[r].media_type = PLAYLIST_MIME
            THEN /\ rewrote[r]
                 /\ resp[r].body = RewrittenBody[tok[r], upstream[r]]
                 /\ stored[r].body = RewrittenBody[tok[r], upstream[r]]
            ELSE /\ ~rewrote[r]
                 /\ resp[r].body = upstream[r].body
                 /\ stored[r].body = upstream[r].body

\* A descriptor with src = false got playlist text and returned it as it
\* came, while an entry playlist with the same URL was rewritten.
C3_Witness ==
    \E r1, r2 \in Requests :
        /\ pc[r1] = "done" /\ cache_sets[r1] = 1 /\ tok[r1] = TokenNested
        /\ upstream[r1].body = PLAYLIST_BODY /\ resp[r1].body = PLAYLIST_BODY
        /\ pc[r2] = "done" /\ cache_sets[r2] = 1 /\ tok[r2] = TokenEntry
        /\ upstream[r2].body = PLAYLIST_BODY /\ resp[r2].body # PLAYLIST_BODY

\* C4: the cache is keyed by the raw path segment. A request whose exact
\* token is cached gets the stored body, content type and headers, stored by
\* a request for that same token, and makes no upstream fetch; any other
\* request with a valid token misses and fetches, also when the other form
\* of its token (with or without ".m3u8") is cached.
C4_CacheKeyedByRawToken ==
    [][\A r \in Requests :
          (pc[r] = "idle" /\ pc'[r] # "idle" /\ Decoded[tok'[r]].err = "") =>
              IF cache[tok'[r]].present
              THEN /\ pc'[r] = "done"
                   /\ resp'[r].status = 200
                   /\ resp'[r].body = cache[tok'[r]].body
                   /\ resp'[r].media_type = cache[tok'[r]].content_type
                   /\ resp'[r].headers = cache[tok'[r]].headers
                   /\ resp'[r].by = tok'[r]
                   /\ fetches'[r] = 0
              ELSE /\ pc'[r] = "fetching"
                   /\ fetches'[r] = 1]_vars

\* One request is served from the cache under its exact token while a
\* request for the same token with the hint, not cached itself, fetches.
C4_Witness ==
    \E r1, r2 \in Requests :
        /\ pc[r1] = "done" /\ tok[r1] = TokenEntry /\ resp[r1].from_cache
        /\ fetches[r1] = 0
        /\ pc[r2] = "fetching" /\ tok[r2] = TokenEntryHint /\ fetches[r2] = 1
        /\ cache[TokenEntry].present /\ ~cache[TokenEntryHint].present

\* C5: a failed upstream fetch ends the request in an error response (the
\* upstream's status code, 504 for a timeout, 502 for any other transport
\* failure) after exactly one fetch, and leaves the cache as it was.
C5_FailedFetch ==
    [][\A r \in Requests :
          (pc[r] = "fetching" /\ pc'[r] = "done" /\ failure'[r] # NoFailure) =>
              /\ failure'[r].kind = "status" => resp'[r].status = failure'[r].code
              /\ failure'[r].kind = "timeout" => resp'[r].status = 504
              /\ failure'[r].kind = "request_error" => resp'[r].status = 502
              /\ resp'[r].body = <<>>
              /\ fetches'[r] = 1
              /\ cache_sets'[r] = 0
              /\ cache' = cache]_vars

\* A fetch timed out while an entry for the same token, stored meanwhile by
\* the other request, is in the cache.
C5_Witness ==
    \E r \in Requests :
        /\ pc[r] = "done" /\ failure[r].kind = "timeout" /\ resp[r].status = 504
        /\ fetches[r] = 1 /\ cache_sets[r] = 0
        /\ cache[tok[r]].present

\* C10: a cache entry is immutable once stored: the value under a token
\* never changes until the store evicts it.
C10_EntryImmutable ==
    [][\A t \in Tokens :
          cache[t].present => (cache'[t] = cache[t] \/ ~cache'[t].present)]_vars

\* C10, as the handler does it: the value under a token changes only when
\* the store evicts it (no request moves), or when a request for this token
\* whose own lookup missed ends its fetch with success and stores what it
\* responds with, over whatever is there. A request that hits, fails or is
\* rejected writes nothing.
C10_LastWriteWins ==
    [][\A t \in Tokens :
          cache'[t] # cache[t] =>
              \/ pc' = pc /\ cache[t].present /\ ~cache'[t].present
              \/ \E r \in Requests :
                    /\ pc[r] = "fetching" /\ pc'[r] = "done"
                    /\ tok[r] = t
                    /\ cache_gets[r] = 1 /\ fetches[r] = 1
                    /\ failure'[r] = NoFailure
                    /\ cache_sets'[r] = 1
                    /\ cache'[t] = stored'[r]
                    /\ cache'[t].body = resp'[r].body]_vars

\* Two requests for one token both missed; the second to finish stored a
\* body that differs from the one the first had stored and responded with.
C10_Witness ==
    \E r1, r2 \in Requests :
        /\ r1 # r2 /\ tok[r1] = tok[r2]
        /\ pc[r1] = "done" /\ pc[r2] = "done"
        /\ cache_sets[r1] = 1 /\ cache_sets[r2] = 1
        /\ stored[r1] # stored[r2]
        /\ cache[tok[r2]] = stored[r2]

(***************************************************************************)
(* Properties of the token codec (specification CodecSpec)                 *)
(***************************************************************************)

\* C6: decoding the token the encoder makes of a valid descriptor gives the
\* descriptor back, the url the same and absent fields absent, also when
\* the ".m3u8" hint is appended to the token.
C6_RoundTrip ==
    (c_stage = "decoded" /\ c_hints <= 1) =>
        /\ c_decoded.err = ""
        /\ c_decoded.data = c_data
        /\ c_decoded.data.url = c_data.url
        /\ (c_data.origin = None) = (c_decoded.data.origin = None)
        /\ (c_data.referer = None) = (c_decoded.data.referer = None)

\* A descriptor without origin, with a percent-encoded URL with a query,
\* came back from its token with the hint.
C6_Witness ==
    /\ c_stage = "decoded" /\ c_hints = 1
    /\ EndsWith(c_token, M3U8_SUFFIX)
    /\ c_data.origin = None /\ c_data.referer # None
    /\ Contains(c_data.url, <<37, 50, 48>>)
    /\ c_decoded = [err |-> "", data |-> c_data]

\* C7: for every token string, the suffix-stripping step applied twice
\* gives what it gives applied once.
C7_StripIdempotent ==
    c_strips >= 2 => c_stripped[2] = c_stripped[1]

\* C7, for the tokens that do not end in ".m3u8.m3u8" (every token of the
\* encoder, with or without one hint): the step applied twice gives what
\* it gives applied once.
C7_StripIdempotentOneHint ==
    (c_strips >= 2 /\ ~EndsWith(c_token, M3U8_SUFFIX \o M3U8_SUFFIX)) =>
        c_stripped[2] = c_stripped[1]

\* A token with one hint was stripped twice: the first application removed
\* the hint, the second found nothing.
C7_Witness ==
    /\ c_strips = 2 /\ c_hints = 1
    /\ c_stripped[1] \o M3U8_SUFFIX = c_token
    /\ c_stripped[2] = c_stripped[1]

(***************************************************************************)
(* Properties of the rewriter (specification RewriteSpec)                  *)
(***************************************************************************)

\* The lines of the playlist and of the output, split at the line feeds.
InLines == SplitOn(r_content, 10)

OutLines == SplitOn(r_output, 10)

\* A candidate reference: not blank, no "#" first, likely a media URL.
IsCandidate(line) ==
    /\ Strip(line) # <<>>
    /\ Strip(line)[1] # 35
    /\ is_likely_media_url(Strip(line))

\* A candidate reference that resolves against the parent's URL.
IsResolvable(line) ==
    IsCandidate(line) /\ ~resolve_url_raises(r_parent.url, Strip(line))

\* The line made for a reference resolved to absolute_url: the proxy base,
\* "/url/", the token of the descriptor with the parent's origin and
\* referer and src = false, then the hint if it applies.
ExpectedLine(absolute_url, hint) ==
    server_origin_of(r_current_url) \o <<47, 117, 114, 108, 47>>
    \o encode_proxy_data(ProxyData(absolute_url, r_parent.origin, r_parent.referer, FALSE))
    \o (IF hint THEN M3U8_SUFFIX ELSE <<>>)

C9_NoCarriageReturnLeft ==
    r_stage = "done" =>
        /\ Len(OutLines) = Len(InLines)
        /\ ~Contains(r_output, <<13, 10>>)

\* C9, as the rewriter does it: the output has the lines of the input, in
\* their order, joined by a single line feed; a rewritten line holds no
\* carriage return and no blank, any other line (a candidate that does not
\* resolve too) is the input line as split, a carriage return at its end
\* included.
C9_PassThroughKeepsCarriageReturn ==
    r_stage = "done" =>
        /\ Len(OutLines) = Len(InLines)
        /\ Len(OutLines) = (IF r_lines = 0 THEN 1 ELSE r_lines)
        /\ \A i \in 1..Len(InLines) :
              IF IsResolvable(InLines[i])
              THEN /\ \A k \in 1..Len(OutLines[i]) : ~IsSpace(OutLines[i][k])
                   /\ StartsWith(OutLines[i],
                                 server_origin_of(r_current_url) \o <<47, 117, 114, 108, 47>>)
              ELSE OutLines[i] = InLines[i]

\* A tag line with a CRLF ending went through with its carriage return,
\* and the reference after it, CRLF too, was rewritten without one.
C9_Witness ==
    /\ r_stage = "done" /\ r_lines = 2
    /\ InLines[1] = <<35, 69, 88, 84, 77, 51, 85, 13>>
    /\ OutLines[1] = <<35, 69, 88, 84, 77, 51, 85, 13>>
    /\ Contains(r_output, <<13, 10>>)
    /\ InLines[2] = <<115, 101, 103, 95, 48, 48, 49, 46, 116, 115, 13>>
    /\ ~Contains(OutLines[2], <<13>>)

=============================================================================
